---- MODULE Spec2Model ----
(***************************************************************************)
(* create-opencode-workspace: the scaffold CLI of bin/cli.js.               *)
(*                                                                         *)
(* One invocation of init(): the two prompts of the `prompts` exchange,     *)
(* the cancel guard, the resolution of the target directory, the           *)
(* existsSync conflict check, and the recursive fs.copy of the bundled      *)
(* template tree, entry by entry, with the messages it prints and the      *)
(* exit status of the process.                                             *)
(*                                                                         *)
(* A string is a sequence of keystrokes (tokens); a path is a sequence of  *)
(* segments, each segment a string without the separator "/".              *)
(***************************************************************************)
EXTENDS Integers, Sequences, FiniteSets, TLC

\* ------------------------------------------------------------------ bounds

\* Number of invocations of the CLI in one behaviour.
MaxRuns == 2

\* ------------------------------------------------------------------ strings and paths

Sep == "/"

\* The strings the user may type at the "Project name:" prompt.
Names ==
  { <<>>,
    <<" ">>,
    <<"w">>,
    <<"w", "/", "x">>,
    <<".", ".", "/", "v">>,
    <<".">>,
    <<"/", "t">>,
    <<"/", "p", "/", "templates", "/", "content-creator">>,
    <<"/", "p", "/", "templates", "/", "content-creator", "/", "n">> }

\* JavaScript truthiness of a string: only '' is falsy.
Truthy(s) == s # <<>>

\* s.split('/'): the segments between separators, empty ones included.
RECURSIVE SplitFrom(_, _, _)
SplitFrom(s, cur, acc) ==
  IF s = <<>> THEN Append(acc, cur)
  ELSE IF Head(s) = Sep THEN SplitFrom(Tail(s), <<>>, Append(acc, cur))
       ELSE SplitFrom(Tail(s), Append(cur, Head(s)), acc)

Split(s) == SplitFrom(s, <<>>, <<>>)

\* normalizeString of node's path module on an absolute path: '' and '.'
\* segments are dropped, '..' removes the last segment and stays at the root.
RECURSIVE NormalizeOnto(_, _)
NormalizeOnto(stack, segs) ==
  IF segs = <<>> THEN stack
  ELSE LET g == Head(segs) IN
       IF g = <<>> \/ g = <<".">> THEN NormalizeOnto(stack, Tail(segs))
       ELSE IF g = <<".", ".">>
            THEN NormalizeOnto(IF stack = <<>> THEN stack
                               ELSE SubSeq(stack, 1, Len(stack) - 1), Tail(segs))
            ELSE NormalizeOnto(Append(stack, g), Tail(segs))

IsAbsolute(s) == s # <<>> /\ Head(s) = Sep

\* path.join in place of path.resolve: an absolute name is joined to the base.
PathResolve_Join(base, name) == NormalizeOnto(base, Split(name))

\* path.resolve(base, name) for an absolute base: an empty name is skipped,
\* an absolute name replaces the base, a relative one is joined to it.
PathResolve(base, name) ==
  IF name = <<>> THEN base
  ELSE IF IsAbsolute(name) THEN NormalizeOnto(<<>>, Split(name))
       ELSE NormalizeOnto(base, Split(name))

\* path.dirname of an absolute path.
Dirname(p) == IF p = <<>> THEN p ELSE SubSeq(p, 1, Len(p) - 1)

IsPrefix(p, q) == Len(p) <= Len(q) /\ SubSeq(q, 1, Len(p)) = p

\* The ancestors of p, the root included, p excluded.
Ancestors(p) == { SubSeq(p, 1, k) : k \in 0..(Len(p) - 1) }

\* An absolute path as the string node prints for it.
RECURSIVE PathString(_)
PathString(p) ==
  IF p = <<>> THEN <<Sep>>
  ELSE IF Len(p) = 1 THEN <<Sep>> \o p[1]
       ELSE PathString(SubSeq(p, 1, Len(p) - 1)) \o <<Sep>> \o p[Len(p)]

\* process.cwd() and __dirname of bin/cli.js.
Cwd == << <<"h">> >>
DirnameOfCli == << <<"p">>, <<"bin">> >>

\* The choices of the select prompt, in order, by value.
Choices == << <<"content-creator">> >>

\* The initial value of the text prompt.
InitialName == <<"my-opencode-workspace">>


\* path.resolve(__dirname, '../templates', response.template)
TemplateDirOf(template) ==
  PathResolve(PathResolve(DirnameOfCli, <<".", ".", "/", "templates">>), template)

\* ------------------------------------------------------------------ the filesystem

DirEntry == [kind |-> "dir", data |-> 0]
FileEntry(d) == [kind |-> "file", data |-> d]

\* The bundled template tree, as the entries below its root in the order the
\* recursive copy visits them (a directory before its contents).
TemplateTrees ==
  { << [rel |-> << <<"f">> >>, kind |-> "file", data |-> 1] >>,
    << [rel |-> << <<"f">> >>, kind |-> "file", data |-> 1],
       [rel |-> << <<"d">> >>, kind |-> "dir", data |-> 0],
       [rel |-> << <<"d">>, <<"g">> >>, kind |-> "file", data |-> 2] >> }

\* The installed package and the working directory, before any run.
BaseFS(t) ==
  LET root == TemplateDirOf(Choices[1])
      dirs == Ancestors(root) \cup {root} \cup Ancestors(Cwd) \cup {Cwd}
             \cup Ancestors(DirnameOfCli) \cup {DirnameOfCli}
      ents == { root \o t[i].rel : i \in 1..Len(t) }
      EntryAt(p) == LET i == CHOOSE j \in 1..Len(t) : root \o t[j].rel = p
                    IN  [kind |-> t[i].kind, data |-> t[i].data]
  IN  [p \in dirs \cup ents |-> IF p \in dirs THEN DirEntry ELSE EntryAt(p)]

\* What may already be at a destination before the first run.
PreKinds == {"absent", "file", "emptydir", "fulldir", "clashdir"}

\* fs with the directories of ps added (existing entries are kept).
WithDirs(f, ps) ==
  [p \in DOMAIN f \cup ps |-> IF p \in DOMAIN f THEN f[p] ELSE DirEntry]

\* fs with entry e at p (created or replaced).
WithEntry(f, p, e) ==
  [q \in DOMAIN f \cup {p} |-> IF q = p THEN e ELSE f[q]]

\* The filesystem of BaseFS with something of kind k already at path p.
Preexisting(f, p, k) ==
  IF k = "absent" \/ p \in DOMAIN f
     \/ \E a \in Ancestors(p) : a \in DOMAIN f /\ f[a].kind = "file"
  THEN f
  ELSE LET g == WithDirs(f, Ancestors(p)) IN
       CASE k = "file" -> WithEntry(g, p, FileEntry(7))
         [] k = "emptydir" -> WithEntry(g, p, DirEntry)
         [] k = "fulldir" ->
              WithEntry(WithEntry(g, p, DirEntry), Append(p, <<"old">>), FileEntry(7))
         [] k = "clashdir" ->
              WithEntry(WithEntry(g, p, DirEntry), Append(p, <<"f">>), FileEntry(7))

\* A conflict check that only sees directories (statSync(p).isDirectory()).
ExistsSync_DirOnly(f, p) == p \in DOMAIN f /\ f[p].kind = "dir"

\* A conflict check that only sees files, so that directories are merged into.
ExistsSync_FileOnly(f, p) == p \in DOMAIN f /\ f[p].kind = "file"

\* fs.existsSync(p): stat succeeds.
ExistsSync(f, p) == p \in DOMAIN f

\* The entries at or below p.
Subtree(f, p) == { q \in DOMAIN f : IsPrefix(p, q) }

\* ------------------------------------------------------------------ state

VARIABLES
  fs,          \* the filesystem: path -> entry
  tree,        \* the bundled template tree (fixed by the build)
  run,         \* number of the current invocation
  pc,          \* where init() is: "prompt", "copy_start", "copying", "exited"
  response,    \* the answers object of prompts, so far
  targetDir,   \* const targetDir, once computed
  copied,      \* number of template entries fs.copy has transferred
  out,         \* the messages printed by this run
  exitCode,    \* the exit status of the process, once exited
  writes,      \* paths this run has created or modified
  fs0,         \* the filesystem when this run started
  typed,       \* what the user submitted at the text prompt in this run
  populated,   \* the targets earlier runs have written to
  extMade      \* paths another process created during this run

vars == <<fs, tree, run, pc, response, targetDir, copied, out, exitCode, writes,
          fs0, typed, populated, extMade>>

NoPath == << <<Sep>> >>
NoCode == -1
NoAnswers == [k \in {} |-> <<>>]

\* The banner init() prints before the prompts.
Welcome == [msg |-> "welcome", arg |-> <<>>]

Init ==
  /\ tree \in TemplateTrees
  /\ \E n \in Names \cup {InitialName}, k \in PreKinds :
       /\ ~IsPrefix(TemplateDirOf(Choices[1]), PathResolve(Cwd, n))
       /\ fs = Preexisting(BaseFS(tree), PathResolve(Cwd, n), k)
  /\ fs0 = fs
  /\ run = 1
  /\ pc = "prompt"
  /\ response = NoAnswers
  /\ targetDir = NoPath
  /\ copied = 0
  /\ out = <<Welcome>>
  /\ exitCode = NoCode
  /\ writes = {}
  /\ typed = <<>>
  /\ populated = {}
  /\ extMade = {}


\* ------------------------------------------------------------------ the prompts

\* A text prompt that returns what was typed, without its initial value.
TextSubmit_AsTyped(value) == value

\* The text prompt's submit: this.value = this.value || this.initial.
TextSubmit(value) == IF Truthy(value) THEN value ELSE InitialName

\* response.key, and what a template literal prints for a missing key.
Get(r, key) == IF key \in DOMAIN r THEN r[key] ELSE <<"undefined">>

\* !response.key in JavaScript: the key is missing or its value is ''.
Missing(r, key) == key \notin DOMAIN r \/ ~Truthy(r[key])

\* The steps of the exchange (spec 4.3), read off the answers object.
SelState ==
  IF pc = "prompt"
  THEN IF "template" \notin DOMAIN response THEN "AwaitingTemplate" ELSE "AwaitingName"
  ELSE IF Missing(response, "template") \/ Missing(response, "projectName")
       THEN "Cancelled" ELSE "Ready"

\* The outcome of a run that has exited, read off its last message.
Outcome ==
  IF out = <<>> THEN "none"
  ELSE LET m == out[Len(out)].msg IN
       CASE m = "cancelled" -> "Cancelled"
         [] m = "exists" -> "TargetExists"
         [] m = "failed" -> "TransferFailure"
         [] m = "success" -> "Success"
         [] OTHER -> "none"

\* process.exit(code) after printing message m: nothing else happens.
Exit(m, code) ==
  /\ out' = Append(out, m)
  /\ pc' = "exited"
  /\ exitCode' = code

\* Lines 37-48 with the name resolved against the directory of the script.
Proceed_FromDirname(name) ==
  LET t == PathResolve(DirnameOfCli, name) IN
  /\ targetDir' = t
  /\ IF ExistsSync(fs, t)
     THEN /\ Exit([msg |-> "exists", arg |-> name], 1)
          /\ UNCHANGED <<fs, copied, writes>>
     ELSE /\ out' = Append(out, [msg |-> "creating", arg |-> t])
          /\ pc' = "copy_start"
          /\ UNCHANGED <<fs, copied, writes, exitCode>>

\* Lines 37-48 of init() for the destination name: the path.resolve of the
\* target, the existsSync check and, when it finds nothing, the call of
\* fs.copy.
Proceed(name) ==
  LET t == PathResolve(Cwd, name) IN
  /\ targetDir' = t
  /\ IF ExistsSync(fs, t)
     THEN /\ Exit([msg |-> "exists", arg |-> name], 1)
          /\ UNCHANGED <<fs, copied, writes>>
     ELSE /\ out' = Append(out, [msg |-> "creating", arg |-> t])
          /\ pc' = "copy_start"
          /\ UNCHANGED <<fs, copied, writes, exitCode>>

\* A cancel branch that throws, leaving the report to init().catch.
Cancel_Throw ==
  /\ Exit([msg |-> "error", arg |-> <<>>], 1)
  /\ UNCHANGED <<fs, targetDir, copied, writes>>

\* The cancel branch of init(): message and process.exit(1).
Cancel ==
  /\ Exit([msg |-> "cancelled", arg |-> <<>>], 1)
  /\ UNCHANGED <<fs, targetDir, copied, writes>>

\* init() with a guard on the template only and a fallback for the name.
AfterPrompts_NoNameGuard(r) ==
  /\ response' = r
  /\ IF Missing(r, "template")
     THEN Cancel
     ELSE Proceed(IF "projectName" \in DOMAIN r THEN r.projectName ELSE InitialName)
  /\ UNCHANGED <<tree, run, fs0, populated, extMade>>

\* init() after `await prompts(...)` has returned r: the cancel guard, then
\* the rest of init() up to the call of fs.copy.
AfterPrompts(r) ==
  /\ response' = r
  /\ IF Missing(r, "template") \/ Missing(r, "projectName")
     THEN Cancel
     ELSE Proceed(r.projectName)
  /\ UNCHANGED <<tree, run, fs0, populated, extMade>>

\* The user picks choice i of the select prompt; the text prompt is shown.
AnswerTemplate ==
  /\ pc = "prompt"
  /\ "template" \notin DOMAIN response
  /\ \E i \in 1..Len(Choices) :
       response' = [k \in {"template"} |-> Choices[i]]
  /\ UNCHANGED <<fs, tree, run, pc, targetDir, copied, out, exitCode, writes,
                 fs0, typed, populated, extMade>>

\* The user aborts the select prompt: prompts returns the answers so far.
AbortTemplate ==
  /\ pc = "prompt"
  /\ "template" \notin DOMAIN response
  /\ AfterPrompts(response)
  /\ UNCHANGED typed

\* The user types a name (possibly nothing) and submits the text prompt.
AnswerName ==
  /\ pc = "prompt"
  /\ "template" \in DOMAIN response
  /\ \E name \in Names :
       /\ typed' = Append(typed, name)
       /\ AfterPrompts([k \in {"template", "projectName"} |->
                          IF k = "template" THEN response.template ELSE TextSubmit(name)])

\* An abort of the text prompt that starts the exchange over.
AbortName_Restart ==
  /\ pc = "prompt"
  /\ "template" \in DOMAIN response
  /\ response' = NoAnswers
  /\ UNCHANGED <<fs, tree, run, pc, targetDir, copied, out, exitCode, writes,
                 fs0, typed, populated, extMade>>

\* The user aborts the text prompt: prompts returns the answers so far.
AbortName ==
  /\ pc = "prompt"
  /\ "template" \in DOMAIN response
  /\ AfterPrompts(response)
  /\ UNCHANGED typed

\* ------------------------------------------------------------------ fs.copy

\* A copy that puts the entries beside the target instead of below it.
DestOf_Beside(dest, rel) == Dirname(dest) \o rel

\* path.join(dest, item): where the copy puts the entry at rel of the template.
DestOf(dest, rel) == dest \o rel

\* A copy that creates every entry but leaves the files empty.
CopiedEntry_Blank(e) == [kind |-> e.kind, data |-> 0]

\* What the copy writes for entry e of the template: the same kind and the
\* same bytes (no filter, no transformation).
CopiedEntry(e) == [kind |-> e.kind, data |-> e.data]

\* A catch block that removes the target and all below it (fs.remove).
KeptOnFailure_Rollback(f, dest) ==
  [q \in DOMAIN f \ Subtree(f, dest) |-> f[q]]

\* What is on disk after the catch block of init(): it only prints, so
\* everything the copy wrote before the error is still there.
KeptOnFailure(f, dest) == f

\* A catch block followed by the success message (printed outside the try).
CopyFailed_ThenSuccess ==
  /\ out' = Append(Append(out, [msg |-> "failed", arg |-> <<>>]),
                   [msg |-> "success", arg |-> Get(response, "projectName")])
  /\ pc' = "exited"
  /\ exitCode' = 0

\* A catch block that starts the copy again, once.
CopyFailed_Retry ==
  /\ out' = Append(out, [msg |-> "failed", arg |-> <<>>])
  /\ IF \E i \in 1..Len(out) : out[i].msg = "failed"
     THEN pc' = "exited" /\ exitCode' = 0
     ELSE pc' = "copy_start" /\ exitCode' = exitCode

\* A catch block that ends the process with status 1.
CopyFailed_ExitOne ==
  /\ out' = Append(out, [msg |-> "failed", arg |-> <<>>])
  /\ pc' = "exited"
  /\ exitCode' = 1

\* The catch block of init(): the error is printed and init() returns; the
\* process then ends with the default status.
CopyFailed ==
  /\ out' = Append(out, [msg |-> "failed", arg |-> <<>>])
  /\ pc' = "exited"
  /\ exitCode' = 0

\* fs.copy has transferred n entries: it resolves after the last one, and
\* init() prints the success message and the next steps, and returns.
CopyProgress(n) ==
  /\ copied' = n
  /\ IF n = Len(tree)
     THEN /\ out' = Append(out, [msg |-> "success", arg |-> Get(response, "projectName")])
          /\ pc' = "exited"
          /\ exitCode' = 0
     ELSE /\ pc' = "copying"
          /\ UNCHANGED <<out, exitCode>>

\* A copy without the check that refuses a destination inside the source.
IsSrcSubdir_Never(src, dest) == FALSE

\* isSrcSubdir of fs.copy's checkPaths: dest is src or lies below it
\* ("Cannot copy to a subdirectory of itself").
IsSrcSubdir(src, dest) == IsPrefix(src, dest)

\* The start of fs.copy(src, dest): checkPaths, checkParentPaths, mkdirs of
\* the parent of dest, and mkdir of dest when it was absent.
CopyStart ==
  /\ pc = "copy_start"
  /\ \E ok \in BOOLEAN :
       LET src == TemplateDirOf(response.template)
           dest == targetDir
           there == dest \in DOMAIN fs
           made == (Ancestors(dest) \cup {dest}) \ DOMAIN fs
           err == \/ ~ok
                  \/ \E a \in Ancestors(dest) : a \in DOMAIN fs /\ fs[a].kind = "file"
                  \/ there /\ fs[dest].kind # "dir"
                  \/ IsSrcSubdir(src, dest)
       IN  IF err
           THEN /\ CopyFailed
                /\ fs' = KeptOnFailure(fs, targetDir)
                /\ UNCHANGED <<copied, writes>>
           ELSE /\ fs' = WithDirs(fs, made)
                /\ writes' = writes \cup made
                /\ CopyProgress(0)
  /\ UNCHANGED <<tree, run, response, targetDir, fs0, typed, populated, extMade>>

\* fs.copy transfers the next entry of the template: mkdir for a directory,
\* copyFile (after unlink of an existing file: overwrite is the default) for a
\* file; any of them may fail with an I/O error.
CopyEntry ==
  /\ pc = "copying"
  /\ \E ok \in BOOLEAN :
       LET e == tree[copied + 1]
           d == DestOf(targetDir, e.rel)
           there == d \in DOMAIN fs
           parentOk == Dirname(d) \in DOMAIN fs /\ fs[Dirname(d)].kind = "dir"
           err == \/ ~ok
                  \/ ~parentOk
                  \/ there /\ fs[d].kind # e.kind
       IN  IF err
           THEN /\ CopyFailed
                /\ fs' = KeptOnFailure(fs, targetDir)
                /\ UNCHANGED <<copied, writes>>
           ELSE IF e.kind = "dir" /\ there
                THEN CopyProgress(copied + 1) /\ UNCHANGED <<fs, writes>>
                ELSE /\ fs' = WithEntry(fs, d, CopiedEntry(e))
                     /\ writes' = writes \cup {d}
                     /\ CopyProgress(copied + 1)
  /\ UNCHANGED <<tree, run, response, targetDir, fs0, typed, populated, extMade>>

\* ------------------------------------------------------------------ runs

\* The user runs the CLI again, on the filesystem the last run left.
Invoke ==
  /\ pc = "exited"
  /\ run < MaxRuns
  /\ run' = run + 1
  /\ pc' = "prompt"
  /\ response' = NoAnswers
  /\ targetDir' = NoPath
  /\ copied' = 0
  /\ out' = <<Welcome>>
  /\ exitCode' = NoCode
  /\ writes' = {}
  /\ fs0' = fs
  /\ typed' = <<>>
  /\ populated' = populated \cup (IF writes # {} THEN {targetDir} ELSE {})
  /\ extMade' = {}
  /\ UNCHANGED <<fs, tree>>

\* Another process creates the target after the existsSync check of init()
\* and before fs.copy has started on it.
ExternalCreate ==
  /\ pc = "copy_start"
  /\ targetDir \notin DOMAIN fs
  /\ extMade = {}
  /\ \E k \in PreKinds \ {"absent"} :
       /\ Preexisting(fs, targetDir, k) # fs
       /\ fs' = Preexisting(fs, targetDir, k)
  /\ extMade' = {targetDir}
  /\ UNCHANGED <<tree, run, pc, response, targetDir, copied, out, exitCode, writes,
                 fs0, typed, populated>>

Next ==
  \/ AnswerTemplate
  \/ AbortTemplate
  \/ AnswerName
  \/ AbortName
  \/ CopyStart
  \/ CopyEntry
  \/ Invoke

Spec == Init /\ [][Next]_vars

\* The same program with another process acting on the filesystem.
NextRace ==
  \/ Next
  \/ ExternalCreate

SpecRace == Init /\ [][NextRace]_vars

TypeOK ==
  /\ tree \in TemplateTrees
  /\ run \in 1..MaxRuns
  /\ pc \in {"prompt", "copy_start", "copying", "exited"}
  /\ DOMAIN response \subseteq {"template", "projectName"}
  /\ copied \in 0..Len(tree)
  /\ exitCode \in {NoCode, 0, 1}
  /\ (pc = "exited") = (exitCode # NoCode)
  /\ \A p \in DOMAIN fs : p = <<>> \/
       (Dirname(p) \in DOMAIN fs /\ fs[Dirname(p)].kind = "dir")


\* ------------------------------------------------------------------ properties

HasMsg(m) == \E i \in 1..Len(out) : out[i].msg = m

\* The tree below root, by relative path.
RelTree(f, root) ==
  [rel \in { SubSeq(q, Len(root) + 1, Len(q)) : q \in Subtree(f, root) } |-> f[root \o rel]]

\* Every entry of the template is in the target, as the template has it.
AllCopied ==
  /\ targetDir # NoPath
  /\ \A i \in 1..Len(tree) :
       /\ targetDir \o tree[i].rel \in DOMAIN fs
       /\ fs[targetDir \o tree[i].rel] = [kind |-> tree[i].kind, data |-> tree[i].data]

\* A string of blanks only (the empty string included).
IsBlank(s) == \A i \in 1..Len(s) : s[i] = " "

\* C1: a run that ends in TargetExists, TransferFailure or Cancelled exits
\* with a non-zero status; in particular a failed template transfer does.
C1_ErrorsExitNonZero ==
  (pc = "exited" /\ Outcome \in {"TargetExists", "TransferFailure", "Cancelled"})
    => exitCode # 0

\* C2: when the resolved target exists at the conflict check (file or
\* directory, empty or not), the run ends in TargetExists with exit code 1 and
\* has written nothing: the filesystem is as it was.
C2_ConflictIsAbsolute ==
  (targetDir # NoPath /\ targetDir \in DOMAIN fs0)
    => /\ pc = "exited"
       /\ Outcome = "TargetExists"
       /\ exitCode = 1
       /\ writes = {}
       /\ fs = fs0

C2_Witness ==
  /\ pc = "exited"
  /\ targetDir # NoPath
  /\ targetDir \in DOMAIN fs0
  /\ fs0[targetDir].kind = "dir"
  /\ Subtree(fs0, targetDir) # {targetDir}

\* C3: a target created by another process after the conflict check and
\* before the first write of the copy is detected: the run writes nothing and
\* ends in TargetExists.
C3_LateTargetDetected ==
  (targetDir # NoPath /\ targetDir \in extMade)
    => /\ writes = {}
       /\ pc = "exited" => Outcome = "TargetExists"

\* C4: a run the user cancels at either prompt exits with code 1, has
\* resolved and checked no target, has started no copy, and leaves the
\* filesystem as it found it.
C4_CancelTouchesNothing ==
  (pc = "exited" /\ DOMAIN response # {"template", "projectName"})
    => /\ exitCode = 1
       /\ targetDir = NoPath
       /\ copied = 0
       /\ writes = {}
       /\ fs = fs0

C4_Witness ==
  /\ pc = "exited"
  /\ DOMAIN response = {"template"}
  /\ exitCode = 1
  /\ fs = fs0

\* C5: after a successful run the tree at the target is the template tree:
\* the same relative paths with the same kinds and contents, nothing more and
\* nothing less, and the exit code is 0.
C5_FaithfulCopy ==
  (pc = "exited" /\ Outcome = "Success")
    => /\ exitCode = 0
       /\ targetDir \notin DOMAIN fs0
       /\ RelTree(fs, targetDir) = RelTree(fs, TemplateDirOf(response.template))
       /\ Cardinality(Subtree(fs, targetDir)) = Len(tree) + 1
       /\ AllCopied

C5_Witness ==
  /\ pc = "exited"
  /\ Outcome = "Success"
  /\ Len(tree) = 3
  /\ Len(targetDir) = 3

\* C6: the success message is printed if and only if every entry of the
\* template was copied; a transfer that stops early prints the failure
\* message and never the success message.
C6_SuccessIffAllCopied ==
  /\ HasMsg("success") <=> (pc = "exited" /\ AllCopied /\ targetDir \notin DOMAIN fs0)
  /\ ~(HasMsg("success") /\ HasMsg("failed"))
  /\ (pc = "exited" /\ targetDir # NoPath /\ targetDir \notin DOMAIN fs0 /\ ~AllCopied)
       => HasMsg("failed")

C6_Witness ==
  /\ pc = "exited"
  /\ copied = 1
  /\ Len(tree) = 3
  /\ HasMsg("failed")
  /\ ~HasMsg("success")

\* C7 (as claimed): an empty destination name makes the controller prompt for
\* the name again: no request is produced and no target is resolved or
\* checked until a non-empty name has been typed.
C7_EmptyNameReprompts ==
  (typed # <<>> /\ typed[Len(typed)] = <<>>)
    => /\ SelState = "AwaitingName"
       /\ targetDir = NoPath

\* C7 (amended): an empty entry at the name prompt is answered with the
\* placeholder name: the run is not cancelled, the request is for the
\* placeholder resolved against the working directory, and no target is ever
\* resolved from an empty name.
C7_EmptyNameDefaults ==
  /\ (typed # <<>> /\ typed[Len(typed)] = <<>>)
       => /\ Get(response, "projectName") = InitialName
          /\ SelState = "Ready"
          /\ Outcome # "Cancelled"
          /\ targetDir = PathResolve(Cwd, InitialName)
  /\ targetDir # NoPath => Truthy(Get(response, "projectName"))

C7_Witness ==
  /\ typed = << <<>> >>
  /\ pc = "exited"
  /\ Outcome = "Success"
  /\ targetDir = Append(Cwd, InitialName)

\* C8: a destination name that is empty or all whitespace is rejected: no
\* target is resolved or checked for it and nothing is written.
C8_BlankNameRejected ==
  (typed # <<>> /\ typed[Len(typed)] # <<>> /\ IsBlank(typed[Len(typed)]))
    => /\ targetDir = NoPath
       /\ writes = {}

\* C9: once a run has written to a target, every later run for the same
\* target ends in TargetExists with exit code 1 and leaves the filesystem, the
\* target tree included, as it was.
C9_RerunFailsUnchanged ==
  (targetDir # NoPath /\ targetDir \in populated)
    => /\ pc = "exited"
       /\ Outcome = "TargetExists"
       /\ exitCode = 1
       /\ writes = {}
       /\ RelTree(fs, targetDir) = RelTree(fs0, targetDir)

C9_Witness ==
  /\ run = 2
  /\ targetDir \in populated
  /\ pc = "exited"
  /\ Outcome = "TargetExists"

\* The moves of the exchange that spec 4.3 allows.
SelMoves ==
  { <<"AwaitingTemplate", "AwaitingName">>,
    <<"AwaitingName", "Ready">>,
    <<"AwaitingTemplate", "Cancelled">>,
    <<"AwaitingName", "Cancelled">> }

\* C10: within one run the exchange only moves AwaitingTemplate ->
\* AwaitingName -> Ready, or from either prompt to Cancelled; it never moves
\* back, the name prompt is only shown with a template selected, and a
\* cancelled exchange has produced no request.
C10_SelectionOrder ==
  [][ run' = run =>
        /\ SelState' = SelState \/ <<SelState, SelState'>> \in SelMoves
        /\ SelState' = "AwaitingName" =>
             \E i \in 1..Len(Choices) : Get(response', "template") = Choices[i]
        /\ SelState' = "Cancelled" => targetDir' = NoPath ]_vars

C10_Witness ==
  /\ SelState = "Cancelled"
  /\ "template" \in DOMAIN response
  /\ run = 2

\* The number of messages m this run has printed.
CountMsg(m) == Cardinality({ i \in 1..Len(out) : out[i].msg = m })

\* C12: a run has one prompt exchange and starts the copy at most once, only
\* with both prompts answered and the target found absent by the check; after
\* a failed copy the run has ended and neither prompts nor copies again.
C12_OneExchangeOneCopy ==
  /\ [](/\ Len(typed) <= 1
        /\ CountMsg("creating") <= 1
        /\ (pc \in {"copy_start", "copying"} \/ writes # {} \/ copied > 0)
             => /\ CountMsg("creating") = 1
                /\ ~Missing(response, "template")
                /\ ~Missing(response, "projectName")
                /\ targetDir # NoPath
                /\ targetDir \notin DOMAIN fs0
        /\ HasMsg("failed") => pc = "exited")
  /\ [][ run' = run =>
           /\ pc # "prompt" => pc' # "prompt"
           /\ pc = "copying" => pc' # "copy_start"
           /\ pc = "exited" => pc' = "exited" /\ fs' = fs ]_vars

C12_Witness ==
  /\ pc = "exited"
  /\ HasMsg("failed")
  /\ CountMsg("creating") = 1
  /\ copied = 2

\* C13: the TargetExists report names the colliding path exactly: the
\* resolved absolute target path that the existence check tested.
C13_ReportNamesResolvedPath ==
  (pc = "exited" /\ Outcome = "TargetExists")
    => out[Len(out)].arg = PathString(targetDir)

\* C14: when the user types nothing at the name prompt and confirms, the
\* destination name is the placeholder 'my-opencode-workspace' and the run
\* goes on to the conflict check on that name in the working directory.
C14_EmptyEntryIsPlaceholder ==
  (typed # <<>> /\ typed[Len(typed)] = <<>>)
    => /\ response.projectName = <<"my-opencode-workspace">>
       /\ targetDir = Append(Cwd, <<"my-opencode-workspace">>)
       /\ IF targetDir \in DOMAIN fs0
          THEN pc = "exited" /\ Outcome = "TargetExists"
          ELSE CountMsg("creating") = 1

C14_Witness ==
  /\ typed = << <<>> >>
  /\ targetDir = Append(Cwd, <<"my-opencode-workspace">>)
  /\ targetDir \in DOMAIN fs0
  /\ Outcome = "TargetExists"

\* C15: the destination name is resolved against the working directory once:
\* the target is that resolution, resolving the target again changes nothing,
\* and the path the conflict check tested is the path the copy writes to.
C15_ResolvedOnce ==
  targetDir # NoPath
    => /\ targetDir = PathResolve(Cwd, Get(response, "projectName"))
       /\ PathResolve(Cwd, PathString(targetDir)) = targetDir
       /\ writes # {}
            => /\ targetDir \notin DOMAIN fs0
               /\ targetDir \in writes
               /\ \A w \in writes : IsPrefix(targetDir, w) \/ IsPrefix(w, targetDir)

C15_Witness ==
  /\ Get(response, "projectName") = <<".", ".", "/", "v">>
  /\ targetDir = << <<"v">> >>
  /\ pc = "exited"
  /\ Outcome = "Success"

\* C17 (as claimed): a run the user aborts at either prompt ends silently: it
\* has printed nothing after the banner.
C17_CancelIsSilent ==
  (pc = "exited" /\ DOMAIN response # {"template", "projectName"})
    => out = <<Welcome>>

\* C17 (amended): a run the user aborts at either prompt prints, after the
\* banner, the one line 'Initialization cancelled.' and nothing else, no
\* failure report; and only
\* an abort is reported so: a submitted name, the empty entry included, never
\* ends as cancelled.
C17_CancelPrintsOneLine ==
  /\ (pc = "exited" /\ DOMAIN response # {"template", "projectName"})
       => out = << Welcome, [msg |-> "cancelled", arg |-> <<>>] >>
  /\ HasMsg("cancelled") => typed = <<>>

C17_Witness ==
  /\ pc = "exited"
  /\ response = NoAnswers
  /\ Len(out) = 2

\* C18: a run that exits with code 1 has written nothing, and a run that has
\* started the copy does not exit with code 1.
C18_ExitOneWroteNothing ==
  /\ (pc = "exited" /\ exitCode = 1)
       => /\ writes = {}
          /\ copied = 0
          /\ fs = fs0
          /\ ~HasMsg("creating")
  /\ (pc = "exited" /\ HasMsg("creating")) => exitCode = 0

C18_Witness ==
  /\ pc = "exited"
  /\ HasMsg("creating")
  /\ Outcome = "TransferFailure"
  /\ writes # {}
  /\ exitCode = 0

\* The entries this run has created or changed.
Changed == { p \in DOMAIN fs : p \notin DOMAIN fs0 \/ fs[p] # fs0[p] }

\* C19 (as claimed): a run creates or modifies no entry other than the
\* resolved target and the entries below it.
C19_OnlyTargetSubtree ==
  \A p \in Changed : IsPrefix(targetDir, p)

\* C19 (amended): a run creates or modifies no entry other than the resolved
\* target, the entries below it, and the directories above the target that
\* did not exist (fs.copy creates the missing parents of a nested name);
\* it changes and removes no entry that existed outside the target.
C19_TargetAndMissingParents ==
  /\ DOMAIN fs0 \subseteq DOMAIN fs
  /\ \A p \in Changed :
       \/ IsPrefix(targetDir, p)
       \/ /\ p \in Ancestors(targetDir)
          /\ p \notin DOMAIN fs0
          /\ fs[p] = DirEntry

C19_Witness ==
  /\ targetDir = << <<"h">>, <<"w">>, <<"x">> >>
  /\ << <<"h">>, <<"w">> >> \in Changed
  /\ pc = "exited"
  /\ Outcome = "Success"

\* C20: no run creates, modifies or deletes anything in the bundled template
\* tree, whatever the destination name, a name that resolves to the template
\* directory or into it included.
C20_TemplateUntouched ==
  LET T == TemplateDirOf(Choices[1]) IN
  /\ RelTree(fs, T) = RelTree(BaseFS(tree), T)
  /\ \A w \in writes : ~IsPrefix(T, w)

C20_Witness ==
  /\ targetDir = Append(TemplateDirOf(Choices[1]), <<"n">>)
  /\ pc = "exited"
  /\ Outcome = "TransferFailure"
  /\ writes = {}

\* The target is there in f without some entry of the template.
Incomplete(f) ==
  /\ targetDir \in DOMAIN f
  /\ \E i \in 1..Len(tree) : DestOf(targetDir, tree[i].rel) \notin DOMAIN f

\* C21: a failed transfer is not rolled back: what the copy wrote before the
\* error stays on disk, and a later run for the same target, finding the
\* partial tree, ends in TargetExists and leaves it as incomplete as it was.
C21_NoRollbackNoRepair ==
  /\ (pc = "exited" /\ Outcome = "TransferFailure")
       => /\ \A w \in writes : w \in DOMAIN fs
          /\ \A i \in 1..copied :
               /\ DestOf(targetDir, tree[i].rel) \in DOMAIN fs
               /\ fs[DestOf(targetDir, tree[i].rel)] = CopiedEntry(tree[i])
          /\ writes # {} => targetDir \in DOMAIN fs
  /\ (targetDir # NoPath /\ targetDir \in populated /\ Incomplete(fs0))
       => /\ pc = "exited"
          /\ Outcome = "TargetExists"
          /\ Incomplete(fs)
          /\ RelTree(fs, targetDir) = RelTree(fs0, targetDir)

C21_Witness ==
  /\ run = 2
  /\ targetDir # NoPath
  /\ targetDir \in populated
  /\ Incomplete(fs0)
  /\ DestOf(targetDir, tree[1].rel) \in DOMAIN fs0
  /\ pc = "exited"
  /\ Outcome = "TargetExists"

====
